---- MODULE Spec2Model ----
(***************************************************************************)
(* Model of the cycle solver of NPP-THC: calc::Calculator (new, calculate, *)
(* get_results, save_parameters_to_file) with its two nested fixed-point   *)
(* loops, and the steam-property lookups it calls.                         *)
(*                                                                         *)
(* Every f64 of the program is a fixed-point number: the integer n stands  *)
(* for n / Scale.  Values beyond MaxMag are the infinities, and NaN is a   *)
(* value of its own, so that x/0, 0/0 and comparisons with NaN behave as   *)
(* they do in IEEE-754.                                                    *)
(***************************************************************************)
EXTENDS Integers, Sequences, FiniteSets, TLC

\* ------------------------------------------------------------------------
\* f64 arithmetic
\* ------------------------------------------------------------------------

Scale == 10^4
MaxMag == 10^9
PInf == MaxMag + 1
NInf == 0 - (MaxMag + 1)
NaN == MaxMag + 2

IsNaN(a) == a = NaN
IsInf(a) == a = PInf \/ a = NInf
IsFinite(a) == ~IsNaN(a) /\ ~IsInf(a)

Abs(n) == IF n < 0 THEN 0 - n ELSE n
Sgn(a) == IF a < 0 THEN 0 - 1 ELSE IF a > 0 THEN 1 ELSE 0
Sat(n) == IF n > MaxMag THEN PInf ELSE IF n < 0 - MaxMag THEN NInf ELSE n

\* The decimal literal n/d of the source text, e.g. 0.99 is Lit(99, 100).
Lit(n, d) == (n * Scale) \div d

FNeg[a \in Int] == IF IsNaN(a) THEN NaN ELSE 0 - a

FAbs[a \in Int] == IF IsNaN(a) THEN NaN ELSE Abs(a)

FAdd[a, b \in Int] ==
    IF IsNaN(a) \/ IsNaN(b) THEN NaN
    ELSE IF IsInf(a) THEN (IF IsInf(b) /\ b # a THEN NaN ELSE a)
    ELSE IF IsInf(b) THEN b
    ELSE Sat(a + b)

FSub[a, b \in Int] == FAdd[a, FNeg[b]]

\* |a| * |b| / Scale for finite magnitudes, rounded to nearest, computed by
\* halves so that no intermediate product leaves the machine integers;
\* MaxMag + 1 when the product is beyond MaxMag.
MulMag(a, b) ==
    LET ah == a \div Scale
        al == a % Scale
        bh == b \div Scale
        bl == b % Scale
    IN  IF ah > 0 /\ bh > 0 /\ ah > (MaxMag \div Scale) \div bh THEN MaxMag + 1
        ELSE LET s1 == ah * bh * Scale + ah * bl
             IN  IF s1 > MaxMag THEN MaxMag + 1
                 ELSE LET s2 == s1 + al * bh
                      IN  IF s2 > MaxMag THEN MaxMag + 1
                          ELSE LET s3 == s2 + (al * bl + Scale \div 2) \div Scale
                               IN  IF s3 > MaxMag THEN MaxMag + 1 ELSE s3

FMul[a, b \in Int] ==
    IF IsNaN(a) \/ IsNaN(b) THEN NaN
    ELSE IF IsInf(a) \/ IsInf(b)
         THEN (IF a = 0 \/ b = 0 THEN NaN
               ELSE IF Sgn(a) * Sgn(b) > 0 THEN PInf ELSE NInf)
    ELSE Sgn(a) * Sgn(b) * MulMag(Abs(a), Abs(b))

\* The first k decimal digits of r / b, for 0 <= r < b.
RECURSIVE Digits(_, _, _)
Digits(r, b, k) ==
    IF k = 0 THEN 0
    ELSE LET d == (r * 10) \div b
             rr == (r * 10) % b
         IN  d * 10^(k - 1) + Digits(rr, b, k - 1)

\* |a| * Scale / |b| for finite magnitudes, b > 0; MaxMag + 1 when beyond
\* MaxMag.  A divisor too large for the digit steps is first cut by one
\* decimal place together with the remainder.
DivMag(a, b) ==
    LET q == a \div b
        r == a % b
    IN  IF q > MaxMag \div Scale THEN MaxMag + 1
        ELSE LET f == IF b > MaxMag \div 10
                      THEN Digits((r \div 10) % (b \div 10), b \div 10, 4)
                      ELSE Digits(r, b, 4)
                 s == q * Scale + f
             IN  IF s > MaxMag THEN MaxMag + 1 ELSE s

FDiv[a, b \in Int] ==
    IF IsNaN(a) \/ IsNaN(b) THEN NaN
    ELSE IF IsInf(a)
         THEN (IF IsInf(b) THEN NaN
               ELSE IF Sgn(a) * (IF b < 0 THEN 0 - 1 ELSE 1) > 0 THEN PInf ELSE NInf)
    ELSE IF IsInf(b) THEN 0
    ELSE IF b = 0
         THEN (IF a = 0 THEN NaN ELSE IF a > 0 THEN PInf ELSE NInf)
    ELSE Sgn(a) * Sgn(b) * DivMag(Abs(a), Abs(b))

\* a < b of f64: false as soon as one side is NaN.
FLt[a, b \in Int] == ~IsNaN(a) /\ ~IsNaN(b) /\ a < b

\* f64::ln, by the first Pade term 2 (x - 1) / (x + 1) on x > 0; ln 0 is
\* -inf and the logarithm of a negative number is NaN.
FLn[x \in Int] ==
    IF IsNaN(x) \/ x < 0 THEN NaN
    ELSE IF x = 0 THEN NInf
    ELSE IF x = PInf THEN PInf
    ELSE FDiv[FMul[Lit(2, 1), FSub[x, Lit(1, 1)]], FAdd[x, Lit(1, 1)]]

\* ------------------------------------------------------------------------
\* Steam Property Service (crate seuif97, outside the repository): one
\* property of water/steam from two others.  Modelled from its contract as a
\* pure, total function: a piecewise-linear saturation line, saturated
\* liquid and vapour enthalpies linear in the saturation temperature, and
\* ds = dh / T along an isobar.  An input outside the valid range makes the
\* lookup signal failure by returning the value INVALID.
\* ------------------------------------------------------------------------

OP == "OP"
OT == "OT"
OD == "OD"
OH == "OH"
OS == "OS"
OX == "OX"

INVALID == Lit(0 - 1000, 1)

PMaxSteam == Lit(22, 1)
HMaxSteam == Lit(4000, 1)
SMaxSteam == Lit(12, 1)
TMaxSteam == Lit(800, 1)
PKnee == Lit(1, 1)
TKnee == Lit(170, 1)

SatT(p) ==
    IF p <= PKnee THEN FAdd[Lit(20, 1), FMul[Lit(150, 1), p]]
    ELSE FAdd[TKnee, FMul[Lit(20, 1), FSub[p, PKnee]]]

SatP(t) ==
    IF t <= TKnee THEN FDiv[FSub[t, Lit(20, 1)], Lit(150, 1)]
    ELSE FAdd[PKnee, FDiv[FSub[t, TKnee], Lit(20, 1)]]

LiqH(t) == FMul[Lit(4, 1), t]
EvapH(t) == FSub[Lit(2500, 1), FMul[Lit(2, 1), t]]
VapH(t) == FAdd[LiqH(t), EvapH(t)]
LiqS(t) == FMul[Lit(1, 100), t]
LiqD(t) == FSub[Lit(1000, 1), t]
Kelvin(t) == FAdd[t, Lit(27315, 100)]

ValidP(p) == IsFinite(p) /\ p > 0 /\ p <= PMaxSteam
ValidX(x) == IsFinite(x) /\ x >= 0 /\ x <= Lit(1, 1)
ValidSatT(t) == IsFinite(t) /\ t > Lit(20, 1) /\ t <= SatT(PMaxSteam)
ValidH(h) == IsFinite(h) /\ h >= 0 /\ h <= HMaxSteam
ValidS(s) == IsFinite(s) /\ s >= 0 /\ s <= SMaxSteam
ValidT(t) == IsFinite(t) /\ t >= 0 /\ t <= TMaxSteam

\* The property o on the saturation line at temperature t and quality x.
SatProp(t, x, o) ==
    CASE o = OT -> t
      [] o = OP -> SatP(t)
      [] o = OH -> FAdd[LiqH(t), FMul[x, EvapH(t)]]
      [] o = OS -> FAdd[LiqS(t), FDiv[FMul[x, EvapH(t)], Kelvin(t)]]
      [] o = OD -> FSub[LiqD(t), FMul[x, FSub[LiqD(t), Lit(5, 1)]]]
      [] OTHER -> INVALID

px(p, x, o) == IF ValidP(p) /\ ValidX(x) THEN SatProp(SatT(p), x, o) ELSE INVALID

tx(t, x, o) == IF ValidSatT(t) /\ ValidX(x) THEN SatProp(t, x, o) ELSE INVALID

\* The property o at enthalpy h on the isobar whose saturation temperature
\* is t.
ph_at(t, h, o) ==
    CASE o = OX ->
           IF h <= LiqH(t) THEN 0
           ELSE IF h >= VapH(t) THEN Lit(1, 1)
           ELSE FDiv[FSub[h, LiqH(t)], EvapH(t)]
      [] o = OS -> FAdd[LiqS(t), FDiv[FSub[h, LiqH(t)], Kelvin(t)]]
      [] o = OT ->
           IF h <= LiqH(t) THEN FDiv[h, Lit(4, 1)]
           ELSE IF h <= VapH(t) THEN t
           ELSE FAdd[t, FDiv[FSub[h, VapH(t)], Lit(2, 1)]]
      [] OTHER -> INVALID

ph(p, h, o) ==
    IF ValidP(p) /\ ValidH(h) THEN ph_at(SatT(p), h, o) ELSE INVALID

\* The property o at entropy s on the isobar whose saturation temperature
\* is t.
ps_at(t, s, o) ==
    CASE o = OH -> FAdd[LiqH(t), FMul[FSub[s, LiqS(t)], Kelvin(t)]]
      [] OTHER -> INVALID

ps(p, s, o) ==
    IF ValidP(p) /\ ValidS(s) THEN ps_at(SatT(p), s, o) ELSE INVALID

\* The property o at temperature t on the isobar whose saturation
\* temperature is ts.
pt_at(ts, t, o) ==
    CASE o = OH ->
           IF t <= ts THEN LiqH(t)
           ELSE FAdd[VapH(ts), FMul[Lit(2, 1), FSub[t, ts]]]
      [] OTHER -> INVALID

pt(p, t, o) ==
    IF ValidP(p) /\ ValidT(t) THEN pt_at(SatT(p), t, o) ELSE INVALID

\* ------------------------------------------------------------------------
\* CalcInputParameters
\* ------------------------------------------------------------------------

One == Lit(1, 1)
Two == Lit(2, 1)

ParamFields ==
    {"ne", "n_1", "x_fh", "zeta_d", "n_hi", "n_li", "n_m", "n_ge", "dp_fh",
     "dp_rh", "dp_ej", "dp_cd", "dp_f", "theta_hu", "theta_lu", "n_h",
     "n_fwpp", "n_fwpti", "n_fwptm", "n_fwptg", "t_sw1", "ne_npp", "g_cd",
     "p_c", "dt_sub", "dt_c", "p_s", "dt_sw", "dt", "dp_hz", "t_rh2z", "z",
     "z_l", "z_h", "dt_fw", "dp_fwpo", "dp_cwp"}

\* #[derive(Default)]: every field 0.0.
DefaultParams == [f \in ParamFields |-> 0]

\* CalcInputParameters::from_default(), the reference design point.
from_default ==
    [p_c |-> Lit(155, 10), p_s |-> Lit(6, 1), t_rh2z |-> Lit(15, 1),
     t_sw1 |-> Lit(24, 1), z |-> Lit(7, 1), z_h |-> Lit(2, 1),
     z_l |-> Lit(4, 1), dp_cd |-> Lit(5, 100), dp_cwp |-> Lit(31, 10),
     dp_ej |-> Lit(4, 100), dp_f |-> Lit(1, 100), dp_fh |-> Lit(5, 100),
     dp_fwpo |-> Lit(12, 10), dp_hz |-> Lit(13, 100), dp_rh |-> Lit(8, 100),
     dt |-> Lit(5, 1), dt_c |-> Lit(35, 1), dt_fw |-> Lit(85, 100),
     dt_sub |-> Lit(15, 1), dt_sw |-> Lit(7, 1), g_cd |-> Lit(1200, 1),
     n_1 |-> Lit(996, 1000), ne |-> Lit(1000, 1), ne_npp |-> Lit(1, 1),
     n_fwpp |-> Lit(58, 100), n_fwptg |-> Lit(98, 100),
     n_fwpti |-> Lit(80, 100), n_fwptm |-> Lit(90, 100),
     n_ge |-> Lit(99, 100), n_h |-> Lit(98, 100), n_hi |-> Lit(8207, 10000),
     n_li |-> Lit(8359, 10000), n_m |-> Lit(985, 1000),
     theta_hu |-> Lit(3, 1), theta_lu |-> Lit(2, 1),
     x_fh |-> Lit(9975, 10000), zeta_d |-> Lit(105, 10000)]

\* ------------------------------------------------------------------------
\* Stage functions of Calculator
\* ------------------------------------------------------------------------

calc_fwxl(self, p_fwxi, h_fwxi, t_fwxi, dp_fi, dh_fw) ==
    LET p_fwxo == FSub[p_fwxi, dp_fi]
        h_fwxo == FAdd[h_fwxi, dh_fw]
        t_fwxo == ph(p_fwxo, h_fwxo, OT)
        t_roxk == FAdd[t_fwxo, self.theta_lu]
        h_roxk == tx(t_roxk, 0, OH)
        p_roxk == tx(t_roxk, 0, OP)
    IN  [p_fwxi |-> p_fwxi, h_fwxi |-> h_fwxi, t_fwxi |-> t_fwxi,
         p_fwxo |-> p_fwxo, h_fwxo |-> h_fwxo, t_fwxo |-> t_fwxo,
         t_roxk |-> t_roxk, h_roxk |-> h_roxk, p_roxk |-> p_roxk]

calc_fwxh(self, p_fwxi, h_fwxi, t_fwxi, p_fwxo, dh_fw) ==
    LET h_fwxo == FAdd[h_fwxi, dh_fw]
        t_fwxo == ph(p_fwxo, h_fwxo, OT)
        t_roxk == FAdd[t_fwxo, self.theta_hu]
        p_roxk == tx(t_roxk, 0, OP)
        h_roxk == px(p_roxk, 0, OH)
    IN  [p_fwxi |-> p_fwxi, h_fwxi |-> h_fwxi, t_fwxi |-> t_fwxi,
         p_fwxo |-> p_fwxo, h_fwxo |-> h_fwxo, t_fwxo |-> t_fwxo,
         t_roxk |-> t_roxk, h_roxk |-> h_roxk, p_roxk |-> p_roxk]

\* Variant: every extraction expanded with the high-pressure efficiency.
calc_esx_hp_only(self, p_roxk, s_i, h_i, is_h) ==
    LET p_esx == FDiv[p_roxk, FSub[One, self.dp_ej]]
        h_esxs == ps(p_esx, s_i, OH)
        h_esx == FSub[h_i, FMul[self.n_hi, FSub[h_i, h_esxs]]]
        x_esx == ph(p_esx, h_esx, OX)
    IN  [p_esx |-> p_esx, h_esxs |-> h_esxs, h_esx |-> h_esx, x_esx |-> x_esx]

calc_esx(self, p_roxk, s_i, h_i, is_h) ==
    LET p_esx == FDiv[p_roxk, FSub[One, self.dp_ej]]
        h_esxs == ps(p_esx, s_i, OH)
        h_esx == FSub[h_i, FMul[IF is_h THEN self.n_hi ELSE self.n_li,
                                FSub[h_i, h_esxs]]]
        x_esx == ph(p_esx, h_esx, OX)
    IN  [p_esx |-> p_esx, h_esxs |-> h_esxs, h_esx |-> h_esx, x_esx |-> x_esx]

calc_rhx(p_rhx, x_rhx) ==
    LET t_rhx == px(p_rhx, x_rhx, OT)
        h_rhx == px(p_rhx, x_rhx, OH)
        h_zsx == px(p_rhx, 0, OH)
    IN  [p_rhx |-> p_rhx, x_rhx |-> x_rhx, t_rhx |-> t_rhx, h_rhx |-> h_rhx,
         h_zsx |-> h_zsx]

\* Primary coolant temperatures.
PrimaryCoolant1(self) ==
    [t_cs |-> px(self.p_c, 0, OT)]

PrimaryCoolant2(self, s) ==
    LET t_co == FSub[s.t_cs, self.dt_sub]
    IN  s @@ [t_co |-> t_co,
              t_ci |-> FSub[t_co, self.dt_c]]

\* Live steam at the steam generator outlet.
SteamInitial1(self, s) ==
    s @@ [t_s |-> px(self.p_s, One, OT),
          t_fh |-> px(self.p_s, self.x_fh, OT)]

SteamInitial2(self, s) ==
    s @@ [h_fh |-> tx(s.t_fh, self.x_fh, OH),
          s_fh |-> px(self.p_s, self.x_fh, OS),
          dt_m |-> FDiv[FSub[s.t_co, s.t_ci],
              FLn[FDiv[FSub[s.t_co, s.t_s], FSub[s.t_ci, s.t_s]]]]]

\* The condenser.
SteamFinal(self, s) ==
    LET t_cd == FAdd[FAdd[self.t_sw1, self.dt_sw], self.dt]
    IN  s @@ [t_cd |-> t_cd,
              p_cd |-> tx(t_cd, 0, OP)]

\* The high-pressure cylinder.
HighPressureCylinder1(self, s) ==
    LET dp_fh == FMul[self.dp_fh, self.p_s]
        p_hi == FSub[self.p_s, dp_fh]
    IN  s @@ [dp_fh |-> dp_fh,
              p_hi |-> p_hi,
              h_hi |-> px(p_hi, One, OH)]

\* Variant: the reheat loss taken off the exhaust pressure.
HighPressureCylinder2_reheat_loss(self, s) ==
    s @@ [x_hi |-> ph(s.p_hi, s.h_hi, OX),
          s_hi |-> ph(s.p_hi, s.h_hi, OS),
          p_hz |-> FMul[FSub[self.dp_hz, self.dp_rh], s.p_hi]]

HighPressureCylinder2(self, s) ==
    s @@ [x_hi |-> ph(s.p_hi, s.h_hi, OX),
          s_hi |-> ph(s.p_hi, s.h_hi, OS),
          p_hz |-> FMul[self.dp_hz, s.p_hi]]

HighPressureCylinder3(self, s) ==
    s @@ [h_hzs |-> ps(s.p_hz, s.s_hi, OH)]

\* Variant: the exhaust enthalpy with the ideal drop taken whole.
HighPressureCylinder4_ideal(self, s) ==
    s @@ [h_hz |-> s.h_hzs,
          x_hz |-> ph(s.p_hz, s.h_hzs, OX)]

HighPressureCylinder4(self, s) ==
    LET h_hz == FSub[s.h_hi, FMul[self.n_hi, FSub[s.h_hi, s.h_hzs]]]
    IN  s @@ [h_hz |-> h_hz,
              x_hz |-> ph(s.p_hz, h_hz, OX)]

\* Moisture separator and reheaters.
Reheat1(self, s) ==
    LET x_spi == s.x_hz
        p_uw == FMul[Lit(99, 100), s.p_hz]
        p_rh1i == FMul[Lit(99, 100), s.p_hz]
        x_rh1i == FDiv[x_spi, FSub[One, FMul[Lit(98, 100), FSub[One, x_spi]]]]
        p_rh2z == FMul[Lit(97, 100), s.p_hz]
        t_rh2z == FSub[s.t_fh, self.t_rh2z]
    IN  s @@ [dp_rh |-> FMul[self.dp_rh, s.p_hz],
              p_spi |-> s.p_hz,
              x_spi |-> x_spi,
              h_spi |-> px(s.p_hz, 0, OH),
              p_uw |-> p_uw,
              h_uw |-> px(p_uw, 0, OH),
              p_rh1i |-> p_rh1i,
              x_rh1i |-> x_rh1i,
              h_rh1i |-> px(p_rh1i, x_rh1i, OH),
              p_rh2i |-> FMul[Lit(98, 100), s.p_hz],
              p_rh2z |-> p_rh2z,
              t_rh2z |-> t_rh2z,
              h_rh2z |-> pt(p_rh2z, t_rh2z, OH)]

Reheat2(self, s) ==
    LET dh_rh == FDiv[FSub[s.h_rh2z, s.h_rh1i], Two]
        h_rh1z == FAdd[s.h_rh1i, dh_rh]
        h_rh2i == h_rh1z
    IN  s @@ [dh_rh |-> dh_rh,
              h_rh1z |-> h_rh1z,
              h_rh2i |-> h_rh2i,
              t_rh2i |-> ph(s.p_rh2i, h_rh2i, OT),
              p_rh2hs |-> s.p_hi,
              x_rh2hs |-> s.x_hi]

\* The low-pressure cylinder.
LowPressureCylinder1(self, s) ==
    LET p_li == FMul[FSub[One, self.dp_f], s.p_rh2z]
        h_li == s.h_rh2z
        dp_cd == FMul[FSub[FDiv[One, FSub[One, self.dp_cd]], One], s.p_cd]
    IN  s @@ [p_li |-> p_li,
              h_li |-> h_li,
              t_li |-> ph(p_li, h_li, OT),
              dp_cd |-> dp_cd,
              p_lz |-> FAdd[s.p_cd, dp_cd],
              s_li |-> ph(p_li, h_li, OS)]

LowPressureCylinder2(self, s) ==
    LET s_lz == s.s_li
    IN  s @@ [s_lz |-> s_lz,
              h_lzs |-> ps(s.p_lz, s_lz, OH)]

LowPressureCylinder3(self, s) ==
    LET h_lz == FSub[s.h_li, FMul[self.n_li, FSub[s.h_li, s.h_lzs]]]
    IN  s @@ [h_lz |-> h_lz,
              x_lz |-> ph(s.p_lz, h_lz, OX)]

\* Allocation of the feedwater enthalpy rise.
EnthalpyRise1(self, s) ==
    s @@ [h_s |-> px(self.p_s, 0, OH),
          h_cd |-> tx(s.t_cd, 0, OH)]

EnthalpyRise2(self, s) ==
    LET dh_fwop == FDiv[FSub[s.h_s, s.h_cd], FAdd[self.z, One]]
    IN  s @@ [dh_fwop |-> dh_fwop,
              h_fwop |-> FAdd[s.h_cd, FMul[self.z, dh_fwop]]]

EnthalpyRise3(self, s) ==
    s @@ [t_fwop |-> ph(self.p_s, s.h_fwop, OT)]

EnthalpyRise4(self, s) ==
    LET t_fw == FMul[self.dt_fw, s.t_fwop]
    IN  s @@ [t_fw |-> t_fw,
              h_fw |-> pt(self.p_s, t_fw, OH)]

EnthalpyRise5(self, s) ==
    s @@ [dh_fw |-> FDiv[FSub[s.h_fw, s.h_cd], self.z]]

\* The deaerator and the rise per heater on either side of it.
Deaerator1(self, s) ==
    LET p_dea == FMul[Lit(99, 100), s.p_hz]
    IN  s @@ [p_dea |-> p_dea,
              t_deao |-> px(p_dea, 0, OT)]

Deaerator2(self, s) ==
    s @@ [h_deao |-> tx(s.t_deao, 0, OH)]

\* Variant: the low-pressure rise shared among the heaters alone.
Deaerator3_heaters_only(self, s) ==
    s @@ [dh_fwh |-> FDiv[FSub[s.h_fw, s.h_deao], self.z_h],
          dh_fwl |-> FDiv[FSub[s.h_deao, s.h_cd], self.z_l]]

Deaerator3(self, s) ==
    s @@ [dh_fwh |-> FDiv[FSub[s.h_fw, s.h_deao], self.z_h],
          dh_fwl |-> FDiv[FSub[s.h_deao, s.h_cd], FAdd[self.z_l, One]]]

\* Pressures of the feedwater line.
FeedwaterPressures(self, s) ==
    LET p_cwp == FMul[self.dp_cwp, s.p_dea]
        h_cwp == s.h_cd
        dp_cws == FSub[p_cwp, s.p_dea]
    IN  s @@ [p_cwp |-> p_cwp,
              h_cwp |-> h_cwp,
              t_cwp |-> ph(p_cwp, h_cwp, OT),
              dp_cws |-> dp_cws,
              dp_fi |-> FDiv[dp_cws, FAdd[self.z_l, One]]]

\* Low-pressure heaters 1 to 4, each fed by the one before.
LowPressureHeater1(self, s) ==
    s @@ [fw1 |->
              calc_fwxl(self, s.p_cwp, s.h_cwp, s.t_cwp, s.dp_fi, s.dh_fwl)]

LowPressureHeater2(self, s) ==
    s @@ [fw2 |->
              calc_fwxl(self, s.fw1.p_fwxo, s.fw1.h_fwxo, s.fw1.t_fwxo,
                        s.dp_fi, s.dh_fwl)]

\* Variant: heater 3 fed from the outlet of heater 1.
LowPressureHeater3_misfed(self, s) ==
    s @@ [fw3 |->
              calc_fwxl(self, s.fw1.p_fwxo, s.fw1.h_fwxo, s.fw1.t_fwxo,
                        s.dp_fi, s.dh_fwl)]

LowPressureHeater3(self, s) ==
    s @@ [fw3 |->
              calc_fwxl(self, s.fw2.p_fwxo, s.fw2.h_fwxo, s.fw2.t_fwxo,
                        s.dp_fi, s.dh_fwl)]

LowPressureHeater4(self, s) ==
    s @@ [fw4 |->
              calc_fwxl(self, s.fw3.p_fwxo, s.fw3.h_fwxo, s.fw3.t_fwxo,
                        s.dp_fi, s.dh_fwl)]

\* Deaerator inlet and feed pump.
FeedPump(self, s) ==
    LET p_fwpo == FMul[self.dp_fwpo, self.p_s]
        h_fwpo == s.h_deao
    IN  s @@ [h_deai |-> s.fw4.h_fwxo,
              p_fwpo |-> p_fwpo,
              h_fwpo |-> h_fwpo,
              t_fwpo |-> ph(p_fwpo, h_fwpo, OT),
              p_fwi |-> FAdd[self.p_s, Lit(1, 10)]]

\* High-pressure heaters 6 and 7.
HighPressureHeater6(self, s) ==
    s @@ [fw6 |-> calc_fwxh(self, s.p_fwpo, s.h_fwpo, s.t_fwpo,
              FSub[s.p_fwpo, FDiv[FSub[s.p_fwpo, s.p_fwi], Two]], s.dh_fwh)]

HighPressureHeater7(self, s) ==
    s @@ [fw7 |->
              calc_fwxh(self, s.fw6.p_fwxo, s.fw6.h_fwxo, s.fw6.t_fwxo,
                        s.p_fwi, s.dh_fwh)]

\* Extractions of both cylinders.
Extractions1(self, s) ==
    s @@ [hes6 |-> calc_esx(self, s.fw6.p_roxk, s.s_hi, s.h_hi, TRUE)]

Extractions2(self, s) ==
    s @@ [hes7 |-> calc_esx(self, s.fw7.p_roxk, s.s_hi, s.h_hi, TRUE)]

Extractions3(self, s) ==
    s @@ [les1 |-> calc_esx(self, s.fw1.p_roxk, s.s_li, s.h_li, FALSE)]

Extractions4(self, s) ==
    s @@ [les2 |-> calc_esx(self, s.fw2.p_roxk, s.s_li, s.h_li, FALSE)]

Extractions5(self, s) ==
    s @@ [les3 |-> calc_esx(self, s.fw3.p_roxk, s.s_li, s.h_li, FALSE)]

Extractions6(self, s) ==
    s @@ [les4 |-> calc_esx(self, s.fw4.p_roxk, s.s_li, s.h_li, FALSE)]

\* Heating steam of the reheaters, and the adiabatic drop of the feed-pump
\* turbine.
ReheaterSteam1(self, s) ==
    s @@ [rh1 |-> calc_rhx(s.hes7.p_esx, s.hes7.x_esx)]

ReheaterSteam2(self, s) ==
    s @@ [rh2 |-> calc_rhx(s.p_hi, s.x_hi)]

ReheaterSteam3(self, s) ==
    s @@ [h_a |-> FSub[s.h_hi, s.h_hz]]

\* The straight-line part of calculate() before the loops: every stage
\* quantity, from the parameters and the property lookups, in the order
\* of the source.
StageBlock(self) ==
    ReheaterSteam3(self,
    ReheaterSteam2(self,
    ReheaterSteam1(self,
    Extractions6(self,
    Extractions5(self,
    Extractions4(self,
    Extractions3(self,
    Extractions2(self,
    Extractions1(self,
    HighPressureHeater7(self,
    HighPressureHeater6(self,
    FeedPump(self,
    LowPressureHeater4(self,
    LowPressureHeater3(self,
    LowPressureHeater2(self,
    LowPressureHeater1(self,
    FeedwaterPressures(self,
    Deaerator3(self,
    Deaerator2(self,
    Deaerator1(self,
    EnthalpyRise5(self,
    EnthalpyRise4(self,
    EnthalpyRise3(self,
    EnthalpyRise2(self,
    EnthalpyRise1(self,
    LowPressureCylinder3(self,
    LowPressureCylinder2(self,
    LowPressureCylinder1(self,
    Reheat2(self,
    Reheat1(self,
    HighPressureCylinder4(self,
    HighPressureCylinder3(self,
    HighPressureCylinder2(self,
    HighPressureCylinder1(self,
    SteamFinal(self,
    SteamInitial2(self,
    SteamInitial1(self,
    PrimaryCoolant2(self,
    PrimaryCoolant1(self)))))))))))))))))))))))))))))))))))))))

\* The stage quantities that are the direct return value of a property
\* lookup, and the heaters, extractions and reheaters with theirs.
LookupScalars ==
    {"t_cs", "t_s", "t_fh", "h_fh", "s_fh", "p_cd", "h_hi", "x_hi", "s_hi",
     "h_hzs", "x_hz", "h_spi", "h_uw", "h_rh1i", "h_rh2z", "t_rh2i", "t_li",
     "s_li", "h_lzs", "x_lz", "h_s", "h_cd", "t_fwop", "h_fw", "t_deao",
     "h_deao", "t_cwp", "t_fwpo"}
LookupHeaters == {"fw1", "fw2", "fw3", "fw4", "fw6", "fw7"}
LookupExtractions == {"hes6", "hes7", "les1", "les2", "les3", "les4"}
LookupReheaters == {"rh1", "rh2"}

\* The stages of st in which a lookup signalled failure.
FailedStages(st) ==
    {n \in LookupScalars : st[n] = INVALID}
    \cup {n \in LookupHeaters :
            INVALID \in {st[n].t_fwxo, st[n].h_roxk, st[n].p_roxk}}
    \cup {n \in LookupExtractions : INVALID \in {st[n].h_esxs, st[n].x_esx}}
    \cup {n \in LookupReheaters :
            INVALID \in {st[n].t_rhx, st[n].h_rhx, st[n].h_zsx}}

\* ------------------------------------------------------------------------
\* The two loops of calculate()
\* ------------------------------------------------------------------------

\* Head of an outer pass: reactor power, steam and feedwater flow from the
\* assumed efficiency, feed-pump head and mean water density.
OuterStart(self, st) ==
    LET q_r == FDiv[self.ne, self.ne_npp]
        d_s == FDiv[FMul[FMul[Lit(1000, 1), q_r], self.n_1],
                    FAdd[FSub[st.h_fh, st.h_s],
                         FMul[FAdd[One, self.zeta_d], FSub[st.h_s, st.h_fw]]]]
        g_fw == FMul[FAdd[One, self.zeta_d], d_s]
        h_fwp == FSub[st.p_fwpo, st.p_dea]
        rho_fwp == FMul[Lit(5, 10),
                        FAdd[px(st.p_dea, 0, OD), px(st.p_fwpo, 0, OD)]]
    IN  [q_r |-> q_r, d_s |-> d_s, g_fw |-> g_fw, h_fwp |-> h_fwp,
         rho_fwp |-> rho_fwp]

\* Head of an outer pass as the programs written by generate_calc_code_rs
\* and generate_calc_code_py compute it: the two densities are embedded as
\* numbers in the text "0.5 * {} + {}".
GeneratedOuterStart(self, st) ==
    LET q_r == FDiv[self.ne, self.ne_npp]
        d_s == FDiv[FMul[FMul[Lit(1000, 1), q_r], self.n_1],
                    FAdd[FSub[st.h_fh, st.h_s],
                         FMul[FAdd[One, self.zeta_d], FSub[st.h_s, st.h_fw]]]]
        g_fw == FMul[FAdd[One, self.zeta_d], d_s]
        h_fwp == FSub[st.p_fwpo, st.p_dea]
        rho_fwp == FAdd[FMul[Lit(5, 10), px(st.p_dea, 0, OD)],
                        px(st.p_fwpo, 0, OD)]
    IN  [q_r |-> q_r, d_s |-> d_s, g_fw |-> g_fw, h_fwp |-> h_fwp,
         rho_fwp |-> rho_fwp]

\* Steam drawn by the feed-pump turbine.
FeedPumpSteam(self, st, g_fw, h_fwp, rho_fwp) ==
    LET n_fwpp == FDiv[FMul[FMul[Lit(1000, 1), g_fw], h_fwp], rho_fwp]
        n_fwpt == FDiv[n_fwpp,
                  FMul[FMul[FMul[self.n_fwpp, self.n_fwpti], self.n_fwptm],
                  self.n_fwptg]]
        g_fwps == FDiv[n_fwpt, st.h_a]
    IN  [n_fwpp |-> n_fwpp, n_fwpt |-> n_fwpt, g_fwps |-> g_fwps]

\* Extraction flows of the low-pressure heaters and the flow through the
\* low-pressure cylinder.
LowPressureFlows(self, st, f) ==
    LET g_les4 == FDiv[FMul[self.g_cd, FSub[st.fw4.h_fwxo, st.fw4.h_fwxi]],
                  FMul[self.n_h, FSub[st.les4.h_esx, st.fw4.h_roxk]]]
        g_les3 == FDiv[FSub[FMul[self.g_cd, FSub[st.fw3.h_fwxo, st.fw3.h_fwxi]],
                  FMul[FMul[self.n_h, g_les4], FSub[st.fw4.h_roxk, st.fw3.h_roxk]]],
                  FMul[self.n_h, FSub[st.les3.h_esx, st.fw3.h_roxk]]]
        g_les2 == FDiv[FSub[FMul[self.g_cd, FSub[st.fw2.h_fwxo, st.fw2.h_fwxi]],
                  FMul[FMul[self.n_h, FAdd[g_les3, g_les4]],
                  FSub[st.fw3.h_roxk, st.fw2.h_roxk]]],
                  FMul[self.n_h, FSub[st.les2.h_esx, st.fw2.h_roxk]]]
        g_les1 == FDiv[FSub[FMul[self.g_cd, FSub[st.fw1.h_fwxo, st.fw1.h_fwxi]],
                  FMul[FMul[self.n_h, FAdd[FAdd[g_les2, g_les3], g_les4]],
                  FSub[st.fw2.h_roxk, st.fw1.h_roxk]]],
                  FMul[self.n_h, FSub[st.les1.h_esx, st.fw1.h_roxk]]]
        g_sl == FDiv[FAdd[FAdd[FAdd[FAdd[
                FDiv[FMul[FMul[Lit(6, 10), Lit(1000, 1)], self.ne],
                FMul[self.n_m, self.n_ge]],
                FMul[g_les4, FSub[st.les4.h_esx, st.h_lz]]],
                FMul[g_les3, FSub[st.les3.h_esx, st.h_lz]]],
                FMul[g_les2, FSub[st.les2.h_esx, st.h_lz]]],
                FMul[g_les1, FSub[st.les1.h_esx, st.h_lz]]],
                FSub[st.h_li, st.h_lz]]
    IN  f @@ [g_les4 |-> g_les4, g_les3 |-> g_les3, g_les2 |-> g_les2,
              g_les1 |-> g_les1, g_sl |-> g_sl]

\* Heating steam of the two reheaters.
ReheaterFlows(self, st, f) ==
    LET g_zc1 == FDiv[FMul[f.g_sl, st.dh_rh],
                     FMul[self.n_h, FSub[st.rh1.h_rhx, st.rh1.h_zsx]]]
        g_zc2 == FDiv[FMul[f.g_sl, st.dh_rh],
                     FMul[self.n_h, FSub[st.rh2.h_rhx, st.rh2.h_zsx]]]
    IN  f @@ [g_zc1 |-> g_zc1, g_zc2 |-> g_zc2]

\* Variant: each high-pressure heater heated by its own extraction alone.
HighPressureFlows_uncascaded(self, st, g_fw, f) ==
    f @@ [g_hes7 |-> FDiv[FMul[g_fw, FSub[st.fw7.h_fwxo, st.fw7.h_fwxi]],
                          FMul[self.n_h,
                               FSub[st.hes7.h_esx, st.fw7.h_roxk]]],
          g_hes6 |-> FDiv[FMul[g_fw, FSub[st.fw6.h_fwxo, st.fw6.h_fwxi]],
                          FMul[self.n_h,
                               FSub[st.hes6.h_esx, st.fw6.h_roxk]]]]

\* Extraction flows of the high-pressure heaters.
HighPressureFlows(self, st, g_fw, f) ==
    LET g_hes7 == FDiv[FSub[FMul[g_fw, FSub[st.fw7.h_fwxo, st.fw7.h_fwxi]],
                  FMul[FMul[self.n_h, f.g_zc2], FSub[st.rh2.h_zsx, st.fw7.h_roxk]]],
                  FMul[self.n_h, FSub[st.hes7.h_esx, st.fw7.h_roxk]]]
        g_hes6 == FDiv[FSub[FSub[FMul[g_fw, FSub[st.fw6.h_fwxo, st.fw6.h_fwxi]],
                  FMul[FMul[self.n_h, f.g_zc1], FSub[st.rh1.h_zsx, st.fw6.h_roxk]]],
                  FMul[FMul[self.n_h, FAdd[f.g_zc2, g_hes7]],
                  FSub[st.fw7.h_roxk, st.fw6.h_roxk]]],
                  FMul[self.n_h, FSub[st.hes6.h_esx, st.fw6.h_roxk]]]
    IN  f @@ [g_hes7 |-> g_hes7, g_hes6 |-> g_hes6]

\* Separator drain and deaerator steam.
DrainAndDeaerator(self, st, g_fw, f) ==
    LET g_uw == FDiv[FMul[f.g_sl, FSub[st.x_rh1i, st.x_spi]], st.x_spi]
        g_sdea == FDiv[FSub[FSub[FSub[FMul[g_fw, st.h_deao],
                  FMul[g_uw, st.h_uw]],
                  FMul[self.g_cd, st.fw4.h_fwxo]],
                  FMul[FAdd[FAdd[FAdd[f.g_zc1, f.g_zc2], f.g_hes6], f.g_hes7],
                  st.fw6.h_roxk]],
                  st.h_hz]
    IN  f @@ [g_uw |-> g_uw, g_sdea |-> g_sdea]

\* Flow through the high-pressure cylinder.
HighPressureSteam(self, st, f) ==
    LET g_sh == FDiv[FAdd[FAdd[FAdd[
                FDiv[FMul[FMul[Lit(4, 10), Lit(1000, 1)], self.ne],
                FMul[self.n_m, self.n_ge]],
                FMul[f.g_hes7, FSub[st.hes7.h_esx, st.h_hz]]],
                FMul[f.g_hes6, FSub[st.hes6.h_esx, st.h_hz]]],
                FMul[f.g_zc1, FSub[st.rh1.h_rhx, st.h_hz]]],
                FSub[st.h_hi, st.h_hz]]
    IN  f @@ [g_sh |-> g_sh]

\* Variant: the new condenser flow overshoots the balance fourfold.
FlowBalance_overshooting(self, f) ==
    LET d_s == FAdd[FAdd[f.g_fwps, f.g_zc2], f.g_sh]
        g_fw1 == FMul[FAdd[One, self.zeta_d], d_s]
        g_cd1 == FSub[FSub[FSub[g_fw1, f.g_sdea], f.g_uw],
                 FAdd[FAdd[FAdd[f.g_hes6, f.g_hes7], f.g_zc1], f.g_zc2]]
    IN  f @@ [d_s |-> d_s, g_fw1 |-> g_fw1,
              g_cd1 |-> FAdd[self.g_cd,
                             FMul[Lit(4, 1), FSub[g_cd1, self.g_cd]]]]

\* Steam demand, feedwater flow and the condenser flow they imply.
FlowBalance(self, f) ==
    LET d_s == FAdd[FAdd[f.g_fwps, f.g_zc2], f.g_sh]
        g_fw1 == FMul[FAdd[One, self.zeta_d], d_s]
        g_cd1 == FSub[FSub[FSub[g_fw1, f.g_sdea], f.g_uw],
                 FAdd[FAdd[FAdd[f.g_hes6, f.g_hes7], f.g_zc1], f.g_zc2]]
    IN  f @@ [d_s |-> d_s, g_fw1 |-> g_fw1, g_cd1 |-> g_cd1]

\* The test that ends the inner loop.
InnerConverged(g_cd1, g_cd) ==
    FLt[FDiv[FAbs[FSub[g_cd1, g_cd]], g_cd], Lit(1, 100)]

\* The reactor power the converged flows imply.
NewReactorPower(self, st, d_s) ==
    FDiv[FAdd[FMul[d_s, FSub[st.h_fh, st.h_fw]],
              FMul[FMul[self.zeta_d, d_s], FSub[st.h_s, st.h_fw]]],
         FMul[Lit(1000, 1), self.n_1]]

\* Variant: a tolerance a hundred times wider.
OuterConverged_loose(n_ennp1, ne_npp) ==
    FLt[FAbs[FSub[n_ennp1, ne_npp]], Lit(1, 10)]

\* The test that ends the outer loop.
OuterConverged(n_ennp1, ne_npp) ==
    FLt[FAbs[FSub[n_ennp1, ne_npp]], Lit(1, 1000)]

\* ------------------------------------------------------------------------
\* Result records
\* ------------------------------------------------------------------------

\* Variant: the record takes the feedwater and condenser flows the last
\* inner pass recomputed.
Record1_recomputed(self, loc, f) ==
    [eta_enpp |-> self.ne_npp, g_shp |-> f.g_sh, g_slp |-> f.g_sl,
     g_srh1 |-> f.g_zc1, g_srh2 |-> f.g_zc2, g_sfwp |-> f.g_fwps,
     g_cd |-> f.g_cd1, g_sdea |-> f.g_sdea,
     q_r |-> FDiv[loc.q_r, Lit(1000, 1)], d_s |-> loc.d_s, g_fw |-> f.g_fw1,
     h_fwp |-> loc.h_fwp, g_hes7 |-> f.g_hes7, g_hes6 |-> f.g_hes6,
     g_les4 |-> f.g_les4, g_les3 |-> f.g_les3, g_les2 |-> f.g_les2,
     g_les1 |-> f.g_les1, g_uw |-> f.g_uw, g_zc1 |-> f.g_zc1,
     g_zc2 |-> f.g_zc2]

\* The CalcResult1 literal pushed at the end of an outer pass; loc holds the
\* outer locals (q_r already recomputed), f the flows of the last inner pass.
Record1(self, loc, f) ==
    [eta_enpp |-> self.ne_npp, g_shp |-> f.g_sh, g_slp |-> f.g_sl,
     g_srh1 |-> f.g_zc1, g_srh2 |-> f.g_zc2, g_sfwp |-> f.g_fwps,
     g_cd |-> self.g_cd, g_sdea |-> f.g_sdea,
     q_r |-> FDiv[loc.q_r, Lit(1000, 1)], d_s |-> loc.d_s, g_fw |-> loc.g_fw,
     h_fwp |-> loc.h_fwp, g_hes7 |-> f.g_hes7, g_hes6 |-> f.g_hes6,
     g_les4 |-> f.g_les4, g_les3 |-> f.g_les3, g_les2 |-> f.g_les2,
     g_les1 |-> f.g_les1, g_uw |-> f.g_uw, g_zc1 |-> f.g_zc1,
     g_zc2 |-> f.g_zc2]

\* Variant: the record of the pass takes the place of the sequence.
PushRecord_replacing(result1, rec) == <<rec>>

\* Vec::push
PushRecord(result1, rec) == Append(result1, rec)

FWParameters(fw) ==
    [p_fwxi |-> fw.p_fwxi, h_fwxi |-> fw.h_fwxi, t_fwxi |-> fw.t_fwxi,
     p_fwxo |-> fw.p_fwxo, h_fwxo |-> fw.h_fwxo, t_fwxo |-> fw.t_fwxo,
     t_roxk |-> fw.t_roxk, h_roxk |-> fw.h_roxk]

HESParameters(es) ==
    [p_hesx |-> es.p_esx, x_hesx |-> es.x_esx, h_hesxs |-> es.h_esxs,
     h_hesx |-> es.h_esx]

RHXParameters(rh) ==
    [p_rhx |-> rh.p_rhx, x_rhx |-> rh.x_rhx, t_rhx |-> rh.t_rhx,
     h_rhx |-> rh.h_rhx, h_zsx |-> rh.h_zsx]

\* CalcResult2::default(): every number 0.0, every vector empty.
DefaultResult2 ==
    [ne |-> 0, eta_1 |-> 0, x_fh |-> 0, zeta_d |-> 0, eta_hi |-> 0,
     eta_li |-> 0, eta_m |-> 0, eta_ge |-> 0, dp_fh |-> 0, dp_rh |-> 0,
     dp_ej |-> 0, dp_cd |-> 0, theta_hu |-> 0, theta_lu |-> 0, eta_h |-> 0,
     eta_fwpp |-> 0, eta_fwpti |-> 0, eta_fwptm |-> 0, eta_fwptg |-> 0,
     t_sw1 |-> 0, p_c |-> 0, t_cs |-> 0, dt_sub |-> 0, t_co |-> 0,
     dt_c |-> 0, t_ci |-> 0, p_s |-> 0, t_fh |-> 0, dt_m |-> 0, dt_sw |-> 0,
     dt |-> 0, t_cd |-> 0, p_cd |-> 0, p_hi |-> 0, x_hi |-> 0, h_fh |-> 0,
     s_fh |-> 0, s_hi |-> 0, p_hz |-> 0, x_hz |-> 0, h_hi |-> 0,
     h_hzs |-> 0, h_hz |-> 0, p_spi |-> 0, x_spi |-> 0, p_uw |-> 0,
     h_uw |-> 0, p_rh1i |-> 0, x_rh1i |-> 0, h_rh1i |-> 0, p_rh1hs |-> 0,
     x_rh1hs |-> 0, p_rh2i |-> 0, t_rh2i |-> 0, p_rh2z |-> 0, t_rh2z |-> 0,
     h_rh2z |-> 0, dh_rh |-> 0, h_rh1z |-> 0, h_rh2i |-> 0, p_rh2hs |-> 0,
     x_rh2hs |-> 0, p_li |-> 0, t_li |-> 0, p_lz |-> 0, x_lz |-> 0,
     s_li |-> 0, h_li |-> 0, h_lzs |-> 0, h_lz |-> 0, z |-> 0, z_l |-> 0,
     z_h |-> 0, dh_fw |-> 0, h_s |-> 0, h_cd |-> 0, dh_fwop |-> 0,
     h_fwop |-> 0, t_fwop |-> 0, t_fw |-> 0, h_fw |-> 0, dh_fwh |-> 0,
     p_dea |-> 0, h_deao |-> 0, dh_fwl |-> 0, p_cwp |-> 0, h_cwp |-> 0,
     dp_cws |-> 0, dp_fi |-> 0, lfwx |-> <<>>, h_deai |-> 0, h_deao1 |-> 0,
     t_dea |-> 0, p_dea1 |-> 0, p_fwpo |-> 0, h_fwpo |-> 0, p_fwi |-> 0,
     hfwx |-> <<>>, s_hi1 |-> 0, h_hi1 |-> 0, hhes |-> <<>>, s_li1 |-> 0,
     h_li1 |-> 0, lhes |-> <<>>, rhx |-> <<>>]

\* Variant: as many heater records as the stage counts say.
Result2_sized(self, st) ==
    [DefaultResult2 EXCEPT
        !.lfwx = [i \in 1..(self.z_l \div Scale) |-> FWParameters(st.fw1)],
        !.hfwx = [i \in 1..(self.z_h \div Scale) |-> FWParameters(st.fw6)],
        !.hhes = [i \in 1..(self.z_h \div Scale) |-> HESParameters(st.hes6)],
        !.lhes = [i \in 1..(self.z_l \div Scale) |-> HESParameters(st.les1)],
        !.rhx = <<RHXParameters(st.rh1), RHXParameters(st.rh2)>>]

\* Variant: result2 left as it was constructed.
Result2_unpopulated(self, st) == DefaultResult2

\* The CalcResult2 literal assigned after the outer loop.
Result2(self, st) ==
    [ne |-> self.ne, eta_1 |-> self.n_1, x_fh |-> self.x_fh,
     zeta_d |-> self.zeta_d, eta_hi |-> self.n_hi, eta_li |-> self.n_hi,
     eta_m |-> self.n_m, eta_ge |-> self.n_ge, dp_fh |-> self.dp_fh,
     dp_rh |-> st.dp_rh, dp_ej |-> self.dp_ej, dp_cd |-> self.dp_cd,
     theta_hu |-> self.theta_hu, theta_lu |-> self.theta_lu,
     eta_h |-> self.n_h, eta_fwpp |-> self.n_fwpp,
     eta_fwpti |-> self.n_fwpti, eta_fwptm |-> self.n_fwptm,
     eta_fwptg |-> self.n_fwptg, t_sw1 |-> self.t_sw1, p_c |-> self.p_c,
     t_cs |-> st.t_cs, dt_sub |-> self.dt_sub, t_co |-> st.t_co,
     dt_c |-> self.dt_c, t_ci |-> st.t_ci, p_s |-> self.p_s,
     t_fh |-> st.t_fh, dt_m |-> st.dt_m, dt_sw |-> self.dt_sw,
     dt |-> self.dt, t_cd |-> st.t_cd, p_cd |-> st.p_cd, p_hi |-> st.p_hi,
     x_hi |-> st.x_hi, h_fh |-> st.h_fh, s_fh |-> st.s_fh, s_hi |-> st.s_hi,
     p_hz |-> st.p_hz, x_hz |-> st.x_hz, h_hi |-> st.h_hi,
     h_hzs |-> st.h_hzs, h_hz |-> st.h_hz, p_spi |-> st.p_spi,
     x_spi |-> st.x_spi, p_uw |-> st.p_uw, h_uw |-> st.h_uw,
     p_rh1i |-> st.p_rh1i, x_rh1i |-> st.x_rh1i, h_rh1i |-> st.h_rh1i,
     p_rh1hs |-> st.rh1.p_rhx, x_rh1hs |-> st.rh1.x_rhx,
     p_rh2i |-> st.p_rh2i, t_rh2i |-> st.t_rh2i, p_rh2z |-> st.p_rh2z,
     t_rh2z |-> st.t_rh2z, h_rh2z |-> st.h_rh2z, dh_rh |-> st.dh_rh,
     h_rh1z |-> st.h_rh1z, h_rh2i |-> st.h_rh2i, p_rh2hs |-> st.p_rh2hs,
     x_rh2hs |-> st.x_rh2hs, p_li |-> st.p_li, t_li |-> st.t_li,
     p_lz |-> st.p_lz, x_lz |-> st.x_lz, s_li |-> st.s_li, h_li |-> st.h_li,
     h_lzs |-> st.h_lzs, h_lz |-> st.h_lz, z |-> self.z, z_l |-> self.z_l,
     z_h |-> self.z_h, dh_fw |-> st.dh_fw, h_s |-> st.h_s, h_cd |-> st.h_cd,
     dh_fwop |-> st.dh_fwop, h_fwop |-> st.h_fwop, t_fwop |-> st.t_fwop,
     t_fw |-> st.t_fw, h_fw |-> st.h_fw, dh_fwh |-> st.dh_fwh,
     p_dea |-> st.p_dea, h_deao |-> st.h_deao, dh_fwl |-> st.dh_fwl,
     p_cwp |-> st.p_cwp, h_cwp |-> st.h_cwp, dp_cws |-> st.dp_cws,
     dp_fi |-> st.dp_fi,
     lfwx |-> <<FWParameters(st.fw1), FWParameters(st.fw2),
                FWParameters(st.fw3), FWParameters(st.fw4)>>,
     h_deai |-> st.h_deai, h_deao1 |-> st.h_deao, t_dea |-> st.t_deao,
     p_dea1 |-> st.p_dea, p_fwpo |-> st.p_fwpo, h_fwpo |-> st.h_fwpo,
     p_fwi |-> st.p_fwi,
     hfwx |-> <<FWParameters(st.fw6), FWParameters(st.fw7)>>,
     s_hi1 |-> st.s_hi, h_hi1 |-> st.h_hi,
     hhes |-> <<HESParameters(st.hes6), HESParameters(st.hes7)>>,
     s_li1 |-> st.s_li, h_li1 |-> st.h_li,
     lhes |-> <<HESParameters(st.les1), HESParameters(st.les2),
                HESParameters(st.les3), HESParameters(st.les4)>>,
     rhx |-> <<RHXParameters(st.rh1), RHXParameters(st.rh2)>>]

\* CalcResultParamters::default()
DefaultResults == [result1 |-> <<>>, result2 |-> DefaultResult2]

\* Variant: the two answers exchanged.
get_results_inverted(results) ==
    IF results.result1 = <<>> THEN "Some" ELSE "None"

\* get_results(): nothing while no record has been pushed.
get_results(results) ==
    IF results.result1 = <<>> THEN "None" ELSE "Some"

\* ------------------------------------------------------------------------
\* The Calculator as a state machine
\* ------------------------------------------------------------------------

MaxCalls == 2
MaxRecords == 12
MaxCalculators == 2
MaxInner == 4

VARIABLES
    pc,        \* where calculate() stands; "idle" outside of it
    params,    \* Calculator.params
    results,   \* Calculator.results
    st,        \* locals of the stage block, <<>> before the first call
    loc,       \* locals of the outer loop: q_r, d_s, g_fw, h_fwp, rho_fwp
    flows,     \* flows assigned by the last inner pass, <<>> before it
    n_ennp1,   \* efficiency computed by the last outer pass
    ret,       \* what the last calculate() returned, "none" before
    got,       \* what get_results() returned since the last calculate()
    file,      \* parameters.json
    params0,   \* history: the parameters the Calculator was built from
    ncalls,    \* history: calculate() calls begun
    npass,     \* history: outer passes begun in the current call
    len0,      \* history: length of result1 when the current call began
    turn,      \* history: parity of the inner passes run so far
    gen,       \* history: Calculators built before this one
    ipass,     \* history: inner passes run in the current inner loop
    deltas,    \* history: |g_cd1 - g_cd| of the last two of them
    runs       \* history: the results as each returned calculate() left them

vars == <<pc, params, results, st, loc, flows, n_ennp1, ret, got, file,
          params0, ncalls, npass, len0, turn, gen, ipass, deltas, runs>>

\* The reference parameter set at a plant size the number range can hold.
RefParams == [from_default EXCEPT !.ne = Lit(5, 1), !.g_cd = Lit(6, 1)]

SeedFlows == {Lit(6, 1), Lit(4, 1), 0, Lit(0 - 4, 1)}
SeedEfficiencies == {One, Lit(35, 100)}
ReheatLosses == {0, Lit(3, 100)}

\* What a caller can hand to Calculator::new: typed values with any seed,
\* and fields left blank or zero.
Inputs ==
    {DefaultParams}
    \cup {[RefParams EXCEPT !.g_cd = g, !.ne_npp = e] :
             g \in SeedFlows, e \in SeedEfficiencies}
    \cup {[RefParams EXCEPT !.z = 0], [RefParams EXCEPT !.z_l = 0],
          [RefParams EXCEPT !.z_h = 0], [RefParams EXCEPT !.p_c = 0],
          [RefParams EXCEPT !.z = Lit(5, 1), !.z_l = Lit(3, 1),
                            !.z_h = One]}

\* The window of the last two differences the inner test has seen.
LastTwo(d, x) == IF d = <<>> THEN <<x>> ELSE <<d[Len(d)], x>>

\* Calculator::new(params) and Calculator::default()
Init ==
    /\ params \in Inputs
    /\ params0 = params
    /\ results = DefaultResults
    /\ pc = "idle"
    /\ st = <<>>
    /\ loc = <<>>
    /\ flows = <<>>
    /\ n_ennp1 = <<>>
    /\ ret = "none"
    /\ got = "none"
    /\ file = [written |-> FALSE, params |-> DefaultParams]
    /\ ncalls = 0
    /\ npass = 0
    /\ len0 = 0
    /\ turn = 0
    /\ gen = 0
    /\ ipass = 0
    /\ deltas = <<>>
    /\ runs = <<>>

\* calculate() is entered and runs the stage block.
CalculateBegin ==
    /\ pc = "idle"
    /\ ncalls < MaxCalls
    /\ st' = <<StageBlock(params)>>
    /\ loc' = <<>>
    /\ flows' = <<>>
    /\ n_ennp1' = <<>>
    /\ ret' = "none"
    /\ got' = "none"
    /\ ncalls' = ncalls + 1
    /\ npass' = 0
    /\ len0' = Len(results.result1)
    /\ pc' = "outer"
    /\ UNCHANGED <<params, results, file, params0, turn, gen, runs,
                   ipass, deltas>>

\* Variant: every outer pass starts again from the seed condenser flow.
OuterBegin_reseeding ==
    /\ pc = "outer"
    /\ Len(results.result1) < MaxRecords
    /\ params' = [params EXCEPT !.g_cd = params0.g_cd]
    /\ loc' = <<OuterStart(params, st[1])>>
    /\ flows' = <<>>
    /\ npass' = npass + 1
    /\ ipass' = 0
    /\ deltas' = <<>>
    /\ pc' = "inner"
    /\ UNCHANGED <<results, st, n_ennp1, ret, got, file, params0,
                   ncalls, len0, turn, gen, runs>>

\* Head of an outer pass.
OuterBegin ==
    /\ pc = "outer"
    /\ Len(results.result1) < MaxRecords
    /\ loc' = <<OuterStart(params, st[1])>>
    /\ flows' = <<>>
    /\ npass' = npass + 1
    /\ ipass' = 0
    /\ deltas' = <<>>
    /\ pc' = "inner"
    /\ UNCHANGED <<params, results, st, n_ennp1, ret, got, file, params0,
                   ncalls, len0, turn, gen, runs>>

\* One pass of the inner loop, its test included: every mass flow from the
\* assumed condenser flow params.g_cd and the feedwater flow g_fw, each
\* group of flows from the ones assigned before it.
InnerPass ==
    /\ pc = "inner"
    /\ \E f1 \in {FeedPumpSteam(params, st[1], loc[1].g_fw, loc[1].h_fwp,
                                 loc[1].rho_fwp)} :
       \E f2 \in {LowPressureFlows(params, st[1], f1)} :
       \E f3 \in {ReheaterFlows(params, st[1], f2)} :
       \E f4 \in {HighPressureFlows(params, st[1], loc[1].g_fw, f3)} :
       \E f5 \in {DrainAndDeaerator(params, st[1], loc[1].g_fw, f4)} :
       \E f6 \in {HighPressureSteam(params, st[1], f5)} :
       \E f \in {FlowBalance(params, f6)} :
           /\ flows' = <<f>>
           /\ deltas' = LastTwo(deltas, FAbs[FSub[f.g_cd1, params.g_cd]])
           /\ IF InnerConverged(f.g_cd1, params.g_cd)
              THEN /\ pc' = "push"
                   /\ params' = params
                   /\ loc' = <<[loc[1] EXCEPT !.d_s = f.d_s]>>
              ELSE /\ pc' = "inner"
                   /\ params' = [params EXCEPT !.g_cd = f.g_cd1]
                   /\ loc' = <<[loc[1] EXCEPT !.d_s = f.d_s,
                                              !.g_fw = f.g_fw1]>>
    /\ turn' = 1 - turn
    /\ ipass' = IF ipass < MaxInner THEN ipass + 1 ELSE ipass
    /\ UNCHANGED <<results, st, n_ennp1, ret, got, file, params0, ncalls,
                   npass, len0, gen, runs>>

\* After the inner loop: new reactor power and efficiency, record pushed.
OuterPush ==
    /\ pc = "push"
    /\ LET q_r == NewReactorPower(params, st[1], loc[1].d_s)
           l == [loc[1] EXCEPT !.q_r = q_r]
       IN  /\ loc' = <<l>>
           /\ n_ennp1' = <<FDiv[params.ne, q_r]>>
           /\ results' = [results EXCEPT !.result1 =
                             PushRecord(@, Record1(params, l, flows[1]))]
    /\ pc' = "test"
    /\ UNCHANGED <<params, st, flows, ret, got, file, params0, ncalls,
                   npass, len0, turn, gen, runs,
                   ipass, deltas>>

\* Variant: the outer test stores the new efficiency before it decides.
OuterTest_assigning ==
    /\ pc = "test"
    /\ pc' = IF OuterConverged(n_ennp1[1], params.ne_npp)
             THEN "store" ELSE "outer"
    /\ params' = [params EXCEPT !.ne_npp = n_ennp1[1]]
    /\ UNCHANGED <<results, st, loc, flows, n_ennp1, ret, got, file,
                   params0, ncalls, npass, len0, turn, gen, ipass, deltas,
                   runs>>

\* Variant: a failed outer test leaves the assumed efficiency as it was.
OuterTest_keeping ==
    /\ pc = "test"
    /\ pc' = IF OuterConverged(n_ennp1[1], params.ne_npp)
             THEN "store" ELSE "outer"
    /\ UNCHANGED <<params, results, st, loc, flows, n_ennp1, ret, got, file,
                   params0, ncalls, npass, len0, turn, gen, ipass, deltas,
                   runs>>

\* The outer test.
OuterTest ==
    /\ pc = "test"
    /\ IF OuterConverged(n_ennp1[1], params.ne_npp)
       THEN /\ pc' = "store"
            /\ params' = params
       ELSE /\ pc' = "outer"
            /\ params' = [params EXCEPT !.ne_npp = n_ennp1[1]]
    /\ UNCHANGED <<results, st, loc, flows, n_ennp1, ret, got, file,
                   params0, ncalls, npass, len0, turn, gen, runs,
                   ipass, deltas>>

\* After the outer loop: result2 assigned, Ok(()) returned.
Store ==
    /\ pc = "store"
    /\ results' = [results EXCEPT !.result2 = Result2(params, st[1])]
    /\ runs' = Append(runs, [calc |-> gen, call |-> ncalls,
                             input |-> params0, results |-> results'])
    /\ ret' = "Ok"
    /\ pc' = "idle"
    /\ UNCHANGED <<params, st, loc, flows, n_ennp1, got, file, params0,
                   ncalls, npass, len0, turn, gen,
                   ipass, deltas>>

\* A caller asks for the results.
GetResults ==
    /\ pc = "idle"
    /\ got' = get_results(results)
    /\ UNCHANGED <<pc, params, results, st, loc, flows, n_ennp1, ret, file,
                   params0, ncalls, npass, len0, turn, gen, runs,
                   ipass, deltas>>

\* save_parameters_to_file()
SaveParameters ==
    /\ pc = "idle"
    /\ file' = [written |-> TRUE, params |-> params]
    /\ UNCHANGED <<pc, params, results, st, loc, flows, n_ennp1, ret, got,
                   params0, ncalls, npass, len0, turn, gen, runs,
                   ipass, deltas>>

\* Variant: the new Calculator takes over the results of the one before.
NewCalculator_sharing ==
    /\ pc = "idle"
    /\ gen + 1 < MaxCalculators
    /\ params' = params0
    /\ st' = <<>>
    /\ loc' = <<>>
    /\ flows' = <<>>
    /\ n_ennp1' = <<>>
    /\ ret' = "none"
    /\ got' = "none"
    /\ ncalls' = 0
    /\ npass' = 0
    /\ len0' = Len(results.result1)
    /\ gen' = gen + 1
    /\ UNCHANGED <<pc, results, file, params0, turn, runs,
                   ipass, deltas>>

\* The caller drops the Calculator and builds another with Calculator::new
\* from the same input, as the UI does for every calculation.
NewCalculator ==
    /\ pc = "idle"
    /\ gen + 1 < MaxCalculators
    /\ params' = params0
    /\ results' = DefaultResults
    /\ st' = <<>>
    /\ loc' = <<>>
    /\ flows' = <<>>
    /\ n_ennp1' = <<>>
    /\ ret' = "none"
    /\ got' = "none"
    /\ ncalls' = 0
    /\ npass' = 0
    /\ len0' = 0
    /\ gen' = gen + 1
    /\ UNCHANGED <<pc, file, params0, turn, runs,
                   ipass, deltas>>

\* The caller edits the reheat pressure-loss field and builds the next
\* Calculator from the edited input.
NewCalculatorWith ==
    /\ pc = "idle"
    /\ gen + 1 < MaxCalculators
    /\ \E v \in ReheatLosses : params' = [params0 EXCEPT !.dp_rh = v]
    /\ params0' = params'
    /\ results' = DefaultResults
    /\ st' = <<>>
    /\ loc' = <<>>
    /\ flows' = <<>>
    /\ n_ennp1' = <<>>
    /\ ret' = "none"
    /\ got' = "none"
    /\ ncalls' = 0
    /\ npass' = 0
    /\ len0' = 0
    /\ gen' = gen + 1
    /\ UNCHANGED <<pc, file, turn, ipass, deltas, runs>>

\* The steps calculate() takes on its own once it has been called.
CalcStep == OuterBegin \/ InnerPass \/ OuterPush \/ OuterTest \/ Store

Next ==
    \/ CalculateBegin
    \/ CalcStep
    \/ GetResults
    \/ SaveParameters
    \/ NewCalculator
    \/ NewCalculatorWith

Spec == Init /\ [][Next]_vars

\* A call that has begun keeps running: calculate() is straight-line code
\* on one thread.
FairSpec == Spec /\ WF_vars(CalcStep)

\* ------------------------------------------------------------------------
\* Properties of calculate() and of the Calculator's accessors
\* ------------------------------------------------------------------------

\* C1: every outer pass appends exactly one record to result1, and does so
\* before its convergence test; records already there are neither changed
\* nor removed; when calculate() has returned, result1 has grown by the
\* number of outer passes of the call, the converging one included.  (A
\* step with gen' # gen builds another Calculator.)
C1_OneRecordPerPass ==
    /\ [](Len(results.result1) =
            len0 + npass - (IF pc \in {"inner", "push"} THEN 1 ELSE 0))
    /\ [][gen' = gen =>
            /\ Len(results'.result1) >= Len(results.result1)
            /\ SubSeq(results'.result1, 1, Len(results.result1))
                  = results.result1
            /\ (pc = "push" =>
                  /\ Len(results'.result1) = Len(results.result1) + 1
                  /\ pc' = "test")
            /\ (pc # "push" => results'.result1 = results.result1)
            /\ (pc' = "test" => pc = "push")]_vars

\* A call has returned after two or more passes, each with its record.
C1_Witness ==
    /\ pc = "idle"
    /\ ret = "Ok"
    /\ npass >= 2
    /\ Len(results.result1) = len0 + npass

\* C2: the outer loop exits in a pass exactly when |n_ennp1 - ne_npp| is
\* below 1e-3, n_ennp1 being ne over the new reactor power and ne_npp the
\* efficiency assumed for the pass; when the test fails the next pass
\* assumes exactly n_ennp1.
C2_OuterTest ==
    [][/\ (pc = "push" => n_ennp1' = <<FDiv[params.ne, loc'[1].q_r]>>)
       /\ (pc = "test" =>
             IF /\ IsFinite(n_ennp1[1])
                /\ IsFinite(params.ne_npp)
                /\ Abs(n_ennp1[1] - params.ne_npp) < Scale \div 1000
             THEN pc' = "store" /\ params' = params
             ELSE /\ pc' = "outer"
                  /\ params' = [params EXCEPT !.ne_npp = n_ennp1[1]])
       /\ (pc' = "store" => pc = "test")]_vars

\* The loop has exited after a pass whose test failed and fed its value on.
C2_Witness ==
    /\ pc = "store"
    /\ npass >= 2
    /\ params.ne_npp # params0.ne_npp

\* C3: the inner loop exits only when |g_cd1 - g_cd| < 1e-2 * |g_cd|, for
\* every assumed g_cd, a negative or zero one included.
C3_InnerExitWithinTolerance ==
    [][pc = "inner" /\ pc' = "push" =>
          FLt[FAbs[FSub[flows'[1].g_cd1, params.g_cd]],
              FMul[Lit(1, 100), FAbs[params.g_cd]]]]_vars

\* C4: calculate() terminates on every input.
C4_Terminates ==
    (pc # "idle") ~> (pc = "idle" \/ Len(results.result1) >= MaxRecords)

\* C5: Ok(()) is returned only if both convergence tests were met, the
\* condenser flow to within 1e-2 of its magnitude and the efficiency to
\* within 1e-3.
C5_OkOnlyIfConverged ==
    ret = "Ok" =>
        /\ FLt[FAbs[FSub[flows[1].g_cd1, params.g_cd]],
               FMul[Lit(1, 100), FAbs[params.g_cd]]]
        /\ FLt[FAbs[FSub[n_ennp1[1], params.ne_npp]], Lit(1, 1000)]

\* C6: with a stage count of zero (z, z_l or z_h) calculate() does not
\* return Ok(()) and no enthalpy rise is divided by it.
C6_ZeroStageCountRejected ==
    (params0.z = 0 \/ params0.z_l = 0 \/ params0.z_h = 0) =>
        /\ ret # "Ok"
        /\ st # <<>> => /\ IsFinite(st[1].dh_fw)
                        /\ IsFinite(st[1].dh_fwh)
                        /\ IsFinite(st[1].dh_fwl)

\* C7: when a property lookup of the stage block has signalled failure,
\* calculate() does not return Ok(()) and nothing is put into the results.
C7_FailedLookupAborts ==
    (st # <<>> /\ FailedStages(st[1]) # {}) =>
        /\ ret # "Ok"
        /\ results = DefaultResults

\* C8: get_results() answers Some only when result2 holds the final result
\* of a calculate() that ran to completion; result2 is assigned only after
\* the outer loop has exited; no caller sees result1 non-empty while
\* result2 is still the default record.
C8_NoPartialResults ==
    /\ []((pc = "idle" /\ results.result1 # <<>>) =>
            /\ ret = "Ok"
            /\ results.result2 # DefaultResult2
            /\ results.result2 = Result2(params, st[1]))
    /\ [](got = "Some" => ret = "Ok" /\ results.result2 # DefaultResult2)
    /\ [][(gen' = gen /\ results'.result2 # results.result2) =>
            pc = "store" /\ pc' = "idle"]_vars

\* A caller has been answered Some, result2 populated.
C8_Witness ==
    /\ pc = "idle"
    /\ got = "Some"
    /\ results.result1 # <<>>
    /\ results.result2 # DefaultResult2

\* C9: get_results() answers None on a Calculator on which calculate() has
\* never run, and Some after a calculate() that returned Ok(()), result1
\* then holding at least one record.
C9_GetResults ==
    /\ (ncalls = 0 /\ got # "none") => got = "None"
    /\ ret = "Ok" => Len(results.result1) >= 1
    /\ (ret = "Ok" /\ got # "none") => got = "Some"

\* get_results() has been asked after a calculate() that returned Ok(()).
C9_Witness ==
    /\ ret = "Ok"
    /\ got = "Some"
    /\ Len(results.result1) >= 1

\* C10: the parameters held by the Calculator, and written by
\* save_parameters_to_file(), stay equal field for field to those passed
\* to Calculator::new, the seeds ne_npp and g_cd included.
C10_ParametersUnchanged ==
    /\ params = params0
    /\ file.written => file.params = params0

C12_CallsIndependent ==
    \A i, j \in 1..Len(runs) :
        runs[i].calc = runs[j].calc => runs[i].results = runs[j].results

\* C13: in the last record of a calculate() that returned, the feedwater
\* flow g_fw equals the condensate flow g_cd plus deaerator steam, separator
\* drain, high-pressure extractions and reheater heating steam, to within
\* 1e-2 of its magnitude.
C13_MassConserved ==
    (pc = "idle" /\ ret = "Ok") =>
        LET r == results.result1[Len(results.result1)]
            sum == FAdd[FAdd[FAdd[r.g_cd, r.g_sdea], r.g_uw],
                        FAdd[FAdd[r.g_hes6, r.g_hes7],
                             FAdd[r.g_zc1, r.g_zc2]]]
        IN  FLt[FAbs[FSub[r.g_fw, sum]], FMul[Lit(1, 100), FAbs[r.g_fw]]]

\* C14 as stated: for each of the six feedwater heaters and every record,
\* (feed flow) * (h_fwxo - h_fwxi) equals (the heater's extraction flow) *
\* n_h * (extraction enthalpy - drain enthalpy), to within 1e-2.
C14_OwnExtractionBalance ==
    st # <<>> =>
        LET s == st[1]
            Near(a, b) == FLt[FAbs[FSub[a, b]], FMul[Lit(1, 100), FAbs[a]]]
            Own(feed, fw, g, es) ==
                Near(FMul[feed, FSub[fw.h_fwxo, fw.h_fwxi]],
                     FMul[FMul[g, params.n_h], FSub[es.h_esx, fw.h_roxk]])
        IN  \A k \in 1..Len(results.result1) :
                LET r == results.result1[k]
                IN  /\ Own(r.g_cd, s.fw1, r.g_les1, s.les1)
                    /\ Own(r.g_cd, s.fw2, r.g_les2, s.les2)
                    /\ Own(r.g_cd, s.fw3, r.g_les3, s.les3)
                    /\ Own(r.g_cd, s.fw4, r.g_les4, s.les4)
                    /\ Own(r.g_fw, s.fw6, r.g_hes6, s.hes6)
                    /\ Own(r.g_fw, s.fw7, r.g_hes7, s.hes7)

\* C14 with the drains counted: the heat taken up by the feed equals n_h
\* times the heat given off by the heater's own extraction, by the drains
\* cascaded into it from the heaters above and, in the high-pressure
\* heaters, by the reheater drains; to within 1e-2.
C14_CascadeBalance ==
    st # <<>> =>
        LET s == st[1]
            Near(a, b) == FLt[FAbs[FSub[a, b]], FMul[Lit(1, 100), FAbs[a]]]
            Bal(feed, fw, g, es, extra) ==
                Near(FMul[feed, FSub[fw.h_fwxo, fw.h_fwxi]],
                     FMul[params.n_h,
                          FAdd[FMul[g, FSub[es.h_esx, fw.h_roxk]], extra]])
            Drop(g, from, to) == FMul[g, FSub[from, to]]
        IN  \A k \in 1..Len(results.result1) :
                LET r == results.result1[k]
                IN  /\ Bal(r.g_cd, s.fw4, r.g_les4, s.les4, 0)
                    /\ Bal(r.g_cd, s.fw3, r.g_les3, s.les3,
                           Drop(r.g_les4, s.fw4.h_roxk, s.fw3.h_roxk))
                    /\ Bal(r.g_cd, s.fw2, r.g_les2, s.les2,
                           Drop(FAdd[r.g_les3, r.g_les4],
                                s.fw3.h_roxk, s.fw2.h_roxk))
                    /\ Bal(r.g_cd, s.fw1, r.g_les1, s.les1,
                           Drop(FAdd[FAdd[r.g_les2, r.g_les3], r.g_les4],
                                s.fw2.h_roxk, s.fw1.h_roxk))
                    /\ Bal(r.g_fw, s.fw7, r.g_hes7, s.hes7,
                           Drop(r.g_zc2, s.rh2.h_zsx, s.fw7.h_roxk))
                    /\ Bal(r.g_fw, s.fw6, r.g_hes6, s.hes6,
                           FAdd[Drop(r.g_zc1, s.rh1.h_zsx, s.fw6.h_roxk),
                                Drop(FAdd[r.g_zc2, r.g_hes7],
                                     s.fw7.h_roxk, s.fw6.h_roxk)])

\* A call has returned with records whose extraction flows are positive.
C14_Witness ==
    /\ pc = "idle"
    /\ ret = "Ok"
    /\ Len(results.result1) >= 2
    /\ \A k \in 1..Len(results.result1) :
          /\ results.result1[k].g_les4 > 0
          /\ results.result1[k].g_les1 > 0
          /\ results.result1[k].g_hes7 > 0
          /\ results.result1[k].g_hes6 > 0

C16_StoredPowerInMW ==
    pc = "test" =>
        LET r == results.result1[Len(results.result1)]
            eta == FDiv[params.ne, r.q_r]
        IN  FLt[FAbs[FSub[eta, n_ennp1[1]]],
                FMul[Lit(1, 100), FAbs[n_ennp1[1]]]]

\* C17: after a call that returned Ok every echoed field of result2 equals
\* the like-named input parameter: the efficiencies eta_x = n_x (eta_hi =
\* n_hi, eta_li = n_li), the pressure-loss fractions dp_fh, dp_rh, dp_ej,
\* dp_cd, and the remaining like-named fields.
C17_EchoesInputs ==
    (pc = "idle" /\ ret = "Ok") =>
        LET r == results.result2
        IN  /\ r.eta_hi = params.n_hi
            /\ r.eta_li = params.n_li
            /\ r.eta_1 = params.n_1
            /\ r.eta_m = params.n_m
            /\ r.eta_ge = params.n_ge
            /\ r.eta_h = params.n_h
            /\ r.eta_fwpp = params.n_fwpp
            /\ r.eta_fwpti = params.n_fwpti
            /\ r.eta_fwptm = params.n_fwptm
            /\ r.eta_fwptg = params.n_fwptg
            /\ r.dp_fh = params.dp_fh
            /\ r.dp_rh = params.dp_rh
            /\ r.dp_ej = params.dp_ej
            /\ r.dp_cd = params.dp_cd
            /\ \A k \in {"ne", "x_fh", "zeta_d", "theta_hu", "theta_lu",
                          "t_sw1", "p_c", "dt_sub", "dt_c", "p_s", "dt_sw",
                          "dt", "z", "z_l", "z_h"} : r[k] = params[k]

\* C18: in the result2 of a call that returned Ok, each low-pressure heater
\* after the first and the second high-pressure heater has as inlet
\* pressure, enthalpy and temperature the outlet pressure, enthalpy and
\* temperature of the heater before it; the first low-pressure heater's
\* inlet is the condensate-pump outlet state and the first high-pressure
\* heater's inlet is the feed-pump outlet state.
C18_HeatersChained ==
    (pc = "idle" /\ ret = "Ok") =>
        LET r == results.result2
            Feeds(a, b) == /\ b.p_fwxi = a.p_fwxo
                           /\ b.h_fwxi = a.h_fwxo
                           /\ b.t_fwxi = a.t_fwxo
        IN  /\ \A i \in 1..3 : Feeds(r.lfwx[i], r.lfwx[i + 1])
            /\ Feeds(r.hfwx[1], r.hfwx[2])
            /\ r.lfwx[1].p_fwxi = r.p_cwp
            /\ r.lfwx[1].h_fwxi = r.h_cwp
            /\ r.lfwx[1].t_fwxi = st[1].t_cwp
            /\ r.hfwx[1].p_fwxi = r.p_fwpo
            /\ r.hfwx[1].h_fwxi = r.h_fwpo
            /\ r.hfwx[1].t_fwxi = st[1].t_fwpo

\* A call returned Ok with heaters that each raise the feed enthalpy and
\* lower its pressure, so that no two heater states coincide.
C18_Witness ==
    /\ pc = "idle"
    /\ ret = "Ok"
    /\ \A i \in 1..4 :
          /\ FLt[results.result2.lfwx[i].h_fwxi, results.result2.lfwx[i].h_fwxo]
          /\ FLt[results.result2.lfwx[i].p_fwxo, results.result2.lfwx[i].p_fwxi]
    /\ \A i \in 1..2 :
          FLt[results.result2.hfwx[i].h_fwxi, results.result2.hfwx[i].h_fwxo]

\* C19: after a call that returned Ok, result2 holds 4 low-pressure heater
\* records, 2 high-pressure heater records, 2 + 4 extraction records and 2
\* reheater records, each sequence in stage order, whatever z, z_l and z_h.
C19_FixedLengths ==
    (pc = "idle" /\ ret = "Ok") =>
        LET r == results.result2
            s == st[1]
        IN  /\ r.lfwx = <<FWParameters(s.fw1), FWParameters(s.fw2),
                          FWParameters(s.fw3), FWParameters(s.fw4)>>
            /\ r.hfwx = <<FWParameters(s.fw6), FWParameters(s.fw7)>>
            /\ r.hhes = <<HESParameters(s.hes6), HESParameters(s.hes7)>>
            /\ r.lhes = <<HESParameters(s.les1), HESParameters(s.les2),
                          HESParameters(s.les3), HESParameters(s.les4)>>
            /\ r.rhx = <<RHXParameters(s.rh1), RHXParameters(s.rh2)>>
            /\ Len(r.lfwx) = 4
            /\ Len(r.hfwx) = 2
            /\ Len(r.hhes) + Len(r.lhes) = 6
            /\ Len(r.rhx) = 2

\* A call returned Ok for stage counts other than 4 and 2.
C19_Witness ==
    /\ pc = "idle"
    /\ ret = "Ok"
    /\ params.z_l = Lit(3, 1)
    /\ params.z_h = One
    /\ Len(results.result2.lfwx) = 4
    /\ Len(results.result2.hfwx) = 2

\* C20 as stated: the high-pressure cylinder's exhaust enthalpy is
\* h_hi - (n_m * n_hi) * (h_hi - h_hzs), to within 0.01 kJ/kg.
C20_MechanicalTimesInternal ==
    st # <<>> =>
        FLt[FAbs[FSub[st[1].h_hz,
                      FSub[st[1].h_hi,
                           FMul[FMul[params.n_m, params.n_hi],
                                FSub[st[1].h_hi, st[1].h_hzs]]]]],
            Lit(1, 100)]

\* C20 with the internal efficiency alone: the exhaust enthalpy is
\* h_hi - n_hi * (h_hi - h_hzs); the mechanical efficiency n_m does not
\* enter it.
C20_InternalOnly ==
    st # <<>> =>
        st[1].h_hz = FSub[st[1].h_hi,
                          FMul[params.n_hi, FSub[st[1].h_hi, st[1].h_hzs]]]

\* The stage block has run on an expansion with a real ideal drop and
\* efficiencies below one.
C20_Witness ==
    /\ st # <<>>
    /\ IsFinite(st[1].h_hz)
    /\ FLt[st[1].h_hzs, st[1].h_hz]
    /\ FLt[st[1].h_hz, st[1].h_hi]
    /\ FLt[params.n_m, One]
    /\ FLt[0, params.n_m]

\* C21: the enthalpy h_hi at the high-pressure cylinder's inlet equals the
\* live-steam enthalpy h_fh (at p_s and exit quality x_fh), to within
\* 0.01 kJ/kg, the pressure alone being lowered by the live-steam loss.
C21_InletIsoenthalpic ==
    st # <<>> =>
        /\ FLt[FAbs[FSub[st[1].h_hi, st[1].h_fh]], Lit(1, 100)]
        /\ st[1].p_hi = FSub[params.p_s, FMul[params.dp_fh, params.p_s]]

\* C22: each of the six extraction points has pressure = its heater's drain
\* pressure / (1 - dp_ej), ideal enthalpy at that pressure and the turbine's
\* inlet entropy, and actual enthalpy = inlet enthalpy - efficiency *
\* (inlet enthalpy - ideal enthalpy), with the high-pressure inlet and n_hi
\* for extractions 6 and 7 and the low-pressure inlet and n_li for 1 to 4.
C22_ExtractionPoints ==
    st # <<>> =>
        LET s == st[1]
            Point(es, fw, s_i, h_i, n) ==
                /\ es.p_esx = FDiv[fw.p_roxk, FSub[One, params.dp_ej]]
                /\ es.h_esxs = ps(es.p_esx, s_i, OH)
                /\ es.h_esx = FSub[h_i, FMul[n, FSub[h_i, es.h_esxs]]]
        IN  /\ Point(s.hes6, s.fw6, s.s_hi, s.h_hi, params.n_hi)
            /\ Point(s.hes7, s.fw7, s.s_hi, s.h_hi, params.n_hi)
            /\ Point(s.les1, s.fw1, s.s_li, s.h_li, params.n_li)
            /\ Point(s.les2, s.fw2, s.s_li, s.h_li, params.n_li)
            /\ Point(s.les3, s.fw3, s.s_li, s.h_li, params.n_li)
            /\ Point(s.les4, s.fw4, s.s_li, s.h_li, params.n_li)

\* The stage block has run with different cylinder efficiencies and real
\* expansions to the first and the sixth extraction.
C22_Witness ==
    /\ st # <<>>
    /\ params.n_hi # params.n_li
    /\ FLt[0, params.dp_ej]
    /\ FLt[st[1].les1.h_esxs, st[1].les1.h_esx]
    /\ FLt[st[1].les1.h_esx, st[1].h_li]
    /\ FLt[st[1].hes6.h_esxs, st[1].hes6.h_esx]
    /\ FLt[st[1].hes6.h_esx, st[1].h_hi]

\* C23: the first record of the first calculate() of a Calculator has
\* eta_enpp equal to the input seed ne_npp; a record pushed after an earlier
\* pass of the same call has eta_enpp equal to the efficiency n_ennp1 that
\* pass computed; when the call has returned, every record of the call but
\* the last comes from a pass whose outer test failed and the last from a
\* pass whose outer test succeeded.
C23_TraceLinkage ==
    /\ []((ncalls = 1 /\ Len(results.result1) >= 1) =>
             results.result1[1].eta_enpp = params0.ne_npp)
    /\ []((pc = "idle" /\ ret = "Ok") =>
             LET r == results.result1
             IN  /\ \A i \in (len0 + 1)..(Len(r) - 1) :
                       ~OuterConverged(r[i + 1].eta_enpp, r[i].eta_enpp)
                 /\ OuterConverged(n_ennp1[1], r[Len(r)].eta_enpp))
    /\ [][(pc = "push" /\ pc' = "test" /\ n_ennp1 # <<>>) =>
             results'.result1[Len(results'.result1)].eta_enpp = n_ennp1[1]]_vars

\* A first call has returned after three or more outer passes.
C23_Witness ==
    /\ pc = "idle"
    /\ ret = "Ok"
    /\ ncalls = 1
    /\ Len(results.result1) >= 3
    /\ results.result1[2].eta_enpp # results.result1[1].eta_enpp

\* C24: the g_fw of a record is the feedwater flow the last inner pass
\* started from, (1 + zeta_d) times the d_s of the inner pass before it or
\* the closed-form value of the outer pass when there was none; its d_s is
\* the steam flow the last inner pass recomputed, and its g_cd is the
\* assumed condenser flow that passed the inner test.
C24_RecordedFlows ==
    /\ [][(pc = "inner" /\ pc' = "push") =>
             /\ loc'[1].g_fw = loc[1].g_fw
             /\ loc[1].g_fw = FMul[FAdd[One, params.zeta_d], loc[1].d_s]
             /\ (ipass = 0 => loc[1].g_fw = OuterStart(params, st[1]).g_fw)
             /\ loc'[1].d_s = flows'[1].d_s
             /\ params'.g_cd = params.g_cd]_vars
    /\ [][(pc = "push" /\ pc' = "test") =>
             LET r == results'.result1[Len(results'.result1)]
             IN  /\ r.g_fw = loc[1].g_fw
                 /\ r.d_s = flows[1].d_s
                 /\ r.g_cd = params.g_cd
                 /\ InnerConverged(flows[1].g_cd1, r.g_cd)]_vars

\* A record has been pushed whose g_fw is not (1 + zeta_d) times its d_s and
\* whose g_cd is not the recomputed g_cd1, after two or more inner passes.
C24_Witness ==
    /\ pc = "test"
    /\ ipass >= 2
    /\ LET r == results.result1[Len(results.result1)]
       IN  /\ r.g_fw # FMul[FAdd[One, params.zeta_d], r.d_s]
           /\ r.g_fw # flows[1].g_fw1
           /\ r.g_cd # flows[1].g_cd1
           /\ IsFinite(r.g_fw)
           /\ IsFinite(r.d_s)

\* C25: the head of an outer pass leaves the assumed condenser flow g_cd as
\* the inner loop of the pass before left it (the g_cd of the last record),
\* and so do the push and the outer test; it sets q_r, d_s and g_fw anew to
\* the closed-form balance of the assumed efficiency.
C25_CondenserFlowCarried ==
    /\ [][(pc = "outer" /\ pc' = "inner") =>
             /\ params'.g_cd = params.g_cd
             /\ (npass >= 1 =>
                    params'.g_cd =
                        results.result1[Len(results.result1)].g_cd)
             /\ loc'[1].q_r = FDiv[params.ne, params.ne_npp]
             /\ loc'[1].d_s =
                    FDiv[FMul[FMul[Lit(1000, 1), loc'[1].q_r], params.n_1],
                         FAdd[FSub[st[1].h_fh, st[1].h_s],
                              FMul[FAdd[One, params.zeta_d],
                                   FSub[st[1].h_s, st[1].h_fw]]]]
             /\ loc'[1].g_fw =
                    FMul[FAdd[One, params.zeta_d], loc'[1].d_s]]_vars
    /\ [][(pc = "push" \/ pc = "test") => params'.g_cd = params.g_cd]_vars

\* A second or later outer pass starts with a condenser flow other than the
\* seed and a steam flow other than the one the pass before ended with.
C25_Witness ==
    /\ pc = "inner"
    /\ ipass = 0
    /\ npass >= 2
    /\ IsFinite(params.g_cd)
    /\ params.g_cd # params0.g_cd
    /\ params.g_cd = results.result1[Len(results.result1)].g_cd
    /\ loc[1].d_s # results.result1[Len(results.result1)].d_s

\* C26: every field of the stored parameters other than ne_npp and g_cd
\* keeps the value the Calculator was built with through any sequence of
\* calculate() calls; when calculate() has returned, params.ne_npp is the
\* eta_enpp and params.g_cd the g_cd of the last record of result1.
C26_TwoFieldsOverwritten ==
    /\ \A k \in ParamFields \ {"ne_npp", "g_cd"} : params[k] = params0[k]
    /\ (pc = "idle" /\ ret = "Ok") =>
           /\ params.ne_npp = results.result1[Len(results.result1)].eta_enpp
           /\ params.g_cd = results.result1[Len(results.result1)].g_cd

\* A second call has returned with both seeds overwritten.
C26_Witness ==
    /\ pc = "idle"
    /\ ret = "Ok"
    /\ ncalls = 2
    /\ params.ne_npp # params0.ne_npp
    /\ params.g_cd # params0.g_cd
    /\ IsFinite(params.g_cd)

\* C27: two first runs whose inputs differ only in dp_rh end with the same
\* result1 and with result2 equal in every field but dp_rh; result2.dp_rh
\* is dp_rh * p_hz, and the separator and reheater pressures are 0.99, 0.98
\* and 0.97 of the exhaust pressure p_hz whatever dp_rh is.
C27_ReheatLossWithoutInfluence ==
    /\ \A i, j \in 1..Len(runs) :
           (/\ runs[i].call = 1
            /\ runs[j].call = 1
            /\ [runs[i].input EXCEPT !.dp_rh = 0]
                   = [runs[j].input EXCEPT !.dp_rh = 0]) =>
               /\ runs[i].results.result1 = runs[j].results.result1
               /\ [runs[i].results.result2 EXCEPT !.dp_rh = 0]
                      = [runs[j].results.result2 EXCEPT !.dp_rh = 0]
    /\ \A i \in 1..Len(runs) :
           LET r == runs[i].results.result2
           IN  /\ r.dp_rh = FMul[runs[i].input.dp_rh, r.p_hz]
               /\ r.p_uw = FMul[Lit(99, 100), r.p_hz]
               /\ r.p_rh1i = FMul[Lit(99, 100), r.p_hz]
               /\ r.p_rh2i = FMul[Lit(98, 100), r.p_hz]
               /\ r.p_rh2z = FMul[Lit(97, 100), r.p_hz]

\* Two Calculators built from inputs with different dp_rh have each returned
\* from their first calculate(), with different echoed reheat losses.
C27_Witness ==
    \E i, j \in 1..Len(runs) :
        /\ runs[i].call = 1
        /\ runs[j].call = 1
        /\ runs[i].input.dp_rh # runs[j].input.dp_rh
        /\ runs[i].results.result2.dp_rh # runs[j].results.result2.dp_rh
        /\ Len(runs[i].results.result1) >= 2
        /\ FLt[0, runs[i].results.result2.p_hz]

\* C28: at the head of every outer pass the generated program has the same
\* reactor power, steam flow, feedwater flow, pump head and mean water
\* density 0.5 * (density at p_dea + density at p_fwpo) as calculate(), and
\* so the same feed-pump turbine steam flow in its first inner pass, each
\* to within 1e-3 of calculate()'s value.
C28_GeneratedSameIteration ==
    (pc = "inner" /\ ipass = 0) =>
        LET g == GeneratedOuterStart(params, st[1])
            c == loc[1]
            Near(a, b) == \/ a = b
                          \/ FLt[FAbs[FSub[a, b]], FMul[Lit(1, 1000), FAbs[b]]]
        IN  /\ Near(g.q_r, c.q_r)
            /\ Near(g.d_s, c.d_s)
            /\ Near(g.g_fw, c.g_fw)
            /\ Near(g.h_fwp, c.h_fwp)
            /\ Near(g.rho_fwp, c.rho_fwp)
            /\ Near(FeedPumpSteam(params, st[1], g.g_fw, g.h_fwp,
                                  g.rho_fwp).g_fwps,
                    FeedPumpSteam(params, st[1], c.g_fw, c.h_fwp,
                                  c.rho_fwp).g_fwps)

\* ------------------------------------------------------------------------
\* The desktop UI's parameter handlers
\* ------------------------------------------------------------------------

\* `as f32`: 24 significant bits are kept, the rest rounded off.
as_f32(x) ==
    IF ~IsFinite(x) \/ Abs(x) < 16777216 THEN x
    ELSE Sgn(x) * (((Abs(x) + 64) \div 128) * 128)

\* The fields the calculate handler divides by 100.
PercentFields ==
    {"n_1", "x_fh", "zeta_d", "n_hi", "n_li", "n_m", "n_ge", "dp_fh",
     "dp_rh", "dp_ej", "dp_cd", "dp_f", "n_h", "n_fwpp", "n_fwpti",
     "n_fwptm", "n_fwptg", "dp_hz", "dt_fw", "ne_npp"}

\* Opening a parameters.json: every field of the file goes into the UI
\* field of the same name as it is.
LoadParameters(p) == [k \in ParamFields |-> as_f32(p[k])]

\* The save-parameters handler: every UI field goes into the parameters as
\* it is.
SaveHandlerParameters(ui) == [k \in ParamFields |-> ui[k]]

\* The calculate handler: the percent fields of the UI are divided by 100.
CalculateHandlerParameters(ui) ==
    [k \in ParamFields |->
        IF k \in PercentFields THEN FDiv[ui[k], Lit(100, 1)] ELSE ui[k]]

\* C29: when the calculate handler has solved and written parameters.json,
\* loading that file and calculating again solves the inputs of the run
\* that wrote it: the same values in every field, the seeds ne_npp and g_cd
\* included.
C29_LoadThenCalculateSameInputs ==
    (pc = "idle" /\ ret = "Ok" /\ file.written /\ file.params = params) =>
        CalculateHandlerParameters(LoadParameters(file.params)) = params0

====
